---- MODULE Spec2Model ----
(***************************************************************************)
(* Process/window lifecycle coordinator of the Tauri web-app wrapper:      *)
(* single-instance enforcement, cascade offset, and the restore / capture  *)
(* of the window geometry kept in <exe>.window.json.                       *)
(*                                                                         *)
(* The model follows one launched process (run() in lib.rs) from its entry *)
(* to its event loop.  The other processes of the machine, the top-level   *)
(* windows of the desktop and the geometry file are its environment.       *)
(***************************************************************************)
EXTENDS Integers, Sequences, FiniteSets, TLC

(***************************************************************************)
(* Bounds of the model.                                                    *)
(***************************************************************************)
\* process identifiers are 1..MaxPid
MaxPid == 3
\* at most this many top-level windows on the desktop
MaxWindows == 1
\* the user acts on the window only while fewer than this many move/resize
\* notifications are waiting to be delivered
MaxPending == 1
\* the number of top-level windows on the desktop activate_process_windows
\* enumerates
MaxDesktop == 2

(***************************************************************************)
(* Program constants.                                                      *)
(***************************************************************************)
\* cascade step in pixels per sibling (lib.rs:29)
CascadeStep == 32
\* smallest saved width/height that restore applies (lib.rs:111)
MinRestoreSize == 200
\* grace sleep after terminating siblings, in ms (lib.rs:380)
GraceMillis == 200
\* exit code of a deferring instance (lib.rs:367)
ExitDeferred == 0
\* exit code after a configuration error (lib.rs:17)
ExitConfigError == 1
\* where Windows parks a minimized window (lib.rs:136)
MinimizedCoord == -32000

(***************************************************************************)
(* Option values (Rust Option<T>).                                         *)
(***************************************************************************)
None == [some |-> FALSE]
Some(v) == [some |-> TRUE, val |-> v]

(***************************************************************************)
(* Executable names.  A name is a sequence of characters so that the       *)
(* case-insensitive comparison of the code is computed, not assumed.       *)
(***************************************************************************)
PIDs == 1..MaxPid

\* to_lowercase() on one character
LowerChar(c) ==
    CASE c = "A" -> "a"
      [] c = "P" -> "p"
      [] c = "X" -> "x"
      [] OTHER -> c

\* String::to_lowercase()
ToLowercase(s) == [i \in DOMAIN s |-> LowerChar(s[i])]

\* the file name of the running executable, as std::env::current_exe() gives it
AppName == <<"A", "p", "p">>
\* the names another process-table entry can carry: ours, ours in a
\* different spelling, and a different program
ExeNames == { <<"A", "p", "p">>, <<"A", "P", "P">>, <<"A", "p", "x">> }
\* an empty slot of the process table
NoProc == << >>

(***************************************************************************)
(* The geometry file (config.rs).  Its content is missing, malformed, or a *)
(* JSON object, modelled as a function from field names to values.         *)
(***************************************************************************)
Missing == [kind |-> "missing"]
Malformed == [kind |-> "malformed"]
Unreadable == [kind |-> "unreadable"]
JsonObject(o) == [kind |-> "object", obj |-> o]

\* struct WindowState
WindowStateFields == {"x", "y", "width", "height", "maximized"}

\* serde_json::to_string_pretty writes a number as an optional sign and its
\* decimal digits, and a boolean as the word true or false
DigitChars == << "0", "1", "2", "3", "4", "5", "6", "7", "8", "9" >>

RECURSIVE Itoa(_)
Itoa(n) ==
    IF n < 10 THEN << DigitChars[n + 1] >>
    ELSE Itoa(n \div 10) \o << DigitChars[(n % 10) + 1] >>

\* the number text without its sign
FormatInt_NoSign(n) == Itoa(IF n < 0 THEN -n ELSE n)

FormatInt(n) == IF n < 0 THEN << "-" >> \o Itoa(-n) ELSE Itoa(n)

FormatBool(b) == IF b THEN << "true" >> ELSE << "false" >>

\* serde_json::to_string_pretty(self) for #[derive(Serialize)] WindowState:
\* the members of the object in the order of the struct's fields
ToStringPretty(state) ==
    << [name |-> "x", text |-> FormatInt(state.x)],
       [name |-> "y", text |-> FormatInt(state.y)],
       [name |-> "width", text |-> FormatInt(state.width)],
       [name |-> "height", text |-> FormatInt(state.height)],
       [name |-> "maximized", text |-> FormatBool(state.maximized)] >>

\* serde_json::from_str reading the text back: digits to a number, the
\* words to a boolean
DigitValue(c) == CHOOSE d \in 0..9 : DigitChars[d + 1] = c

RECURSIVE ParseDigits(_, _)
ParseDigits(text, acc) ==
    IF text = << >> THEN acc
    ELSE ParseDigits(Tail(text), acc * 10 + DigitValue(Head(text)))

ParseValue(text) ==
    IF text = << "true" >> THEN TRUE
    ELSE IF text = << "false" >> THEN FALSE
    ELSE IF Head(text) = "-" THEN 0 - ParseDigits(Tail(text), 0)
    ELSE ParseDigits(text, 0)

\* the JSON object a text of members denotes
JsonFromStr(members) ==
    LET names == { members[i].name : i \in DOMAIN members }
        at(k) == CHOOSE i \in DOMAIN members : members[i].name = k
    IN  JsonObject([k \in names |-> ParseValue(members[at(k)].text)])

\* a u32 field accepts no negative number (the upper limits of i32 and
\* u32 are not below the integers used here)
InU32(n) == n >= 0

\* WindowState::load() with #[serde(default)] on the fields: a field the
\* object lacks reads as zero or false
WindowStateLoad_DefaultsMissing(f) ==
    IF f.kind = "object"
    THEN LET get(k, d) == IF k \in DOMAIN f.obj THEN f.obj[k] ELSE d
         IN  IF InU32(get("width", 0)) /\ InU32(get("height", 0))
             THEN Some([x |-> get("x", 0), y |-> get("y", 0),
                        width |-> get("width", 0), height |-> get("height", 0),
                        maximized |-> get("maximized", FALSE)])
             ELSE None
    ELSE None

\* WindowState::load(): None when the file is missing, unreadable or does
\* not parse into the five fields; #[derive(Deserialize)] without
\* deny_unknown_fields skips the members it does not know
WindowStateLoad(f) ==
    IF /\ f.kind = "object"
       /\ WindowStateFields \subseteq DOMAIN f.obj
       /\ InU32(f.obj.width)
       /\ InU32(f.obj.height)
    THEN Some([x |-> f.obj.x, y |-> f.obj.y, width |-> f.obj.width,
               height |-> f.obj.height, maximized |-> f.obj.maximized])
    ELSE None

\* WindowState::save(): the five fields written as one JSON object; the
\* file is taken to be writable (a failed write, which save() swallows,
\* would leave the content as it was).  The content of the file is kept as
\* the JSON value its text denotes.
WindowStateSave(state) == JsonFromStr(ToStringPretty(state))

(***************************************************************************)
(* The window collaborator (tauri::WebviewWindow).  x, y, width, height    *)
(* are the window's normal rectangle, which the OS keeps while the window  *)
(* is minimized or maximized: x, y the corner of the whole window, width   *)
(* and height the size of its client area, which is what set_size sets.    *)
(* frame is what the title bar and the borders add to that size.           *)
(***************************************************************************)
\* a window without decorations, and the frames a decorated window can have
NoFrame == [width |-> 0, height |-> 0]
Frames == { NoFrame, [width |-> 16, height |-> 39] }

\* the rectangle of a maximized window (the work area of the screen)
MaxBounds == [x |-> 0, y |-> 0, width |-> 1920, height |-> 1080]
\* the rectangle the OS gives a newly created window
DefaultBounds == [x |-> 60, y |-> 40, width |-> 800, height |-> 600]

NoWindow == [exists |-> FALSE, x |-> 0, y |-> 0, width |-> 0, height |-> 0,
             frame |-> NoFrame,
             minimized |-> FALSE, maximized |-> FALSE]

\* the main window as the builder creates it
NewWindow == [exists |-> TRUE, x |-> DefaultBounds.x, y |-> DefaultBounds.y,
              width |-> DefaultBounds.width, height |-> DefaultBounds.height,
              frame |-> NoFrame,
              minimized |-> FALSE, maximized |-> FALSE]

\* window.is_minimized()
IsMinimized(w) == w.minimized
\* window.is_maximized()
IsMaximized(w) == w.maximized /\ ~w.minimized

\* window.outer_position()
OuterPosition(w) ==
    IF w.minimized THEN [x |-> MinimizedCoord, y |-> MinimizedCoord]
    ELSE IF w.maximized THEN [x |-> MaxBounds.x, y |-> MaxBounds.y]
    ELSE [x |-> w.x, y |-> w.y]

\* window.outer_size(): the whole window, title bar and borders included
OuterSize(w) ==
    IF w.maximized /\ ~w.minimized
    THEN [width |-> MaxBounds.width, height |-> MaxBounds.height]
    ELSE [width |-> w.width + w.frame.width, height |-> w.height + w.frame.height]

\* window.set_size()
SetSize(w, width, height) == [w EXCEPT !.width = width, !.height = height]
\* window.set_position()
SetPosition(w, x, y) == [w EXCEPT !.x = x, !.y = y]
\* window.maximize()
Maximize(w) == [w EXCEPT !.maximized = TRUE]
\* window.minimize()
Minimize(w) == [w EXCEPT !.minimized = TRUE]

\* one call made on the window
Call(op, a, b) == [op |-> op, a |-> a, b |-> b]

(***************************************************************************)
(* restore_window_state (lib.rs:108-132) as a function of the window, the  *)
(* loaded record and the cascade offset: the window afterwards and the     *)
(* calls made on it, in order.                                             *)
(***************************************************************************)
\* lib.rs:111, the saved size is applied only when both sides are large enough
\* the size test with "or" for "and"
SizeIsReasonable_Either(state) ==
    state.width >= MinRestoreSize \/ state.height >= MinRestoreSize

SizeIsReasonable(state) ==
    state.width >= MinRestoreSize /\ state.height >= MinRestoreSize

\* restore_window_state without the else branch of lib.rs:123-131
RestoreWindowState_NoRecordNoCascade(w, loaded, cascade_offset) ==
    IF loaded.some THEN
        LET state == loaded.val
            sized == SizeIsReasonable(state)
            w1 == IF sized THEN SetSize(w, state.width, state.height) ELSE w
            c1 == IF sized THEN << Call("set_size", state.width, state.height) >>
                  ELSE << >>
            w2 == SetPosition(w1, state.x + cascade_offset, state.y + cascade_offset)
            c2 == c1 \o << Call("set_position", state.x + cascade_offset,
                                state.y + cascade_offset) >>
            w3 == IF state.maximized THEN Maximize(w2) ELSE w2
            c3 == IF state.maximized THEN c2 \o << Call("maximize", 0, 0) >> ELSE c2
        IN  [win |-> w3, calls |-> c3]
    ELSE [win |-> w, calls |-> << >>]

\* lib.rs:108-132
RestoreWindowState(w, loaded, cascade_offset) ==
    IF loaded.some THEN
        LET state == loaded.val
            sized == SizeIsReasonable(state)
            w1 == IF sized THEN SetSize(w, state.width, state.height) ELSE w
            c1 == IF sized THEN << Call("set_size", state.width, state.height) >>
                  ELSE << >>
            w2 == SetPosition(w1, state.x + cascade_offset, state.y + cascade_offset)
            c2 == c1 \o << Call("set_position", state.x + cascade_offset,
                                state.y + cascade_offset) >>
            w3 == IF state.maximized THEN Maximize(w2) ELSE w2
            c3 == IF state.maximized THEN c2 \o << Call("maximize", 0, 0) >> ELSE c2
        IN  [win |-> w3, calls |-> c3]
    ELSE IF cascade_offset > 0 THEN
        LET pos == OuterPosition(w)
        IN  [win |-> SetPosition(w, pos.x + cascade_offset, pos.y + cascade_offset),
             calls |-> << Call("set_position", pos.x + cascade_offset,
                               pos.y + cascade_offset) >>]
    ELSE [win |-> w, calls |-> << >>]

(***************************************************************************)
(* save_window_state (lib.rs:135-177) as a function of the window and the  *)
(* file content: the file content afterwards.                              *)
(***************************************************************************)
\* lib.rs:153-161 and 167-175, the record built from the window's outer bounds
CurrentState(w, maximized) ==
    [x |-> OuterPosition(w).x, y |-> OuterPosition(w).y,
     width |-> OuterSize(w).width, height |-> OuterSize(w).height,
     maximized |-> maximized]

\* which of the branches of save_window_state an event takes
Classify(w, f) ==
    IF IsMinimized(w) THEN "minimized"
    ELSE IF IsMaximized(w)
         THEN (IF WindowStateLoad(f).some THEN "maximized_flag" ELSE "maximized_new")
         ELSE "normal"

\* save_window_state without the maximized branch: the outer bounds are
\* written whatever the window's state
SaveWindowState_NoMaximizedBranch(w, f) ==
    IF IsMinimized(w) THEN f
    ELSE WindowStateSave(CurrentState(w, IsMaximized(w)))

\* save_window_state without the minimized test of lib.rs:138
SaveWindowState_IgnoresMinimized(w, f) ==
    IF IsMaximized(w) THEN
        LET loaded == WindowStateLoad(f)
        IN  IF loaded.some
            THEN WindowStateSave([loaded.val EXCEPT !.maximized = TRUE])
            ELSE WindowStateSave(CurrentState(w, TRUE))
    ELSE WindowStateSave(CurrentState(w, FALSE))

\* save_window_state without the assignment of lib.rs:149
SaveWindowState_KeepsFlag(w, f) ==
    IF IsMinimized(w) THEN f
    ELSE IF IsMaximized(w) THEN
        LET loaded == WindowStateLoad(f)
        IN  IF loaded.some
            THEN WindowStateSave(loaded.val)
            ELSE WindowStateSave(CurrentState(w, TRUE))
    ELSE WindowStateSave(CurrentState(w, FALSE))

\* save_window_state whose normal branch keeps the stored maximized flag
SaveWindowState_NormalKeepsFlag(w, f) ==
    IF IsMinimized(w) THEN f
    ELSE IF IsMaximized(w) THEN
        LET loaded == WindowStateLoad(f)
        IN  IF loaded.some
            THEN WindowStateSave([loaded.val EXCEPT !.maximized = TRUE])
            ELSE WindowStateSave(CurrentState(w, TRUE))
    ELSE LET loaded == WindowStateLoad(f)
         IN  WindowStateSave(CurrentState(w, loaded.some /\ loaded.val.maximized))

\* save_window_state without the else branch of lib.rs:151-163
SaveWindowState_NoNewRecord(w, f) ==
    IF IsMinimized(w) THEN f
    ELSE IF IsMaximized(w) THEN
        LET loaded == WindowStateLoad(f)
        IN  IF loaded.some
            THEN WindowStateSave([loaded.val EXCEPT !.maximized = TRUE])
            ELSE f
    ELSE WindowStateSave(CurrentState(w, FALSE))

\* a handler that skips the write when the record would not change
SaveCalls_OnlyOnChange(w, f) ==
    IF IsMinimized(w) THEN 0
    ELSE IF IsMaximized(w) THEN
        LET loaded == WindowStateLoad(f)
        IN  IF loaded.some /\ loaded.val.maximized THEN 0 ELSE 1
    ELSE IF WindowStateLoad(f) = Some(CurrentState(w, FALSE)) THEN 0 ELSE 1

\* the number of state.save() calls save_window_state makes: none on the
\* return of lib.rs:139, one at lib.rs:165 or lib.rs:176
SaveCalls(w, f) ==
    IF IsMinimized(w) THEN 0
    ELSE IF IsMaximized(w) THEN 1
    ELSE 1

SaveWindowState(w, f) ==
    IF IsMinimized(w) THEN f
    ELSE IF IsMaximized(w) THEN
        LET loaded == WindowStateLoad(f)
        IN  IF loaded.some
            THEN WindowStateSave([loaded.val EXCEPT !.maximized = TRUE])
            ELSE WindowStateSave(CurrentState(w, TRUE))
    ELSE WindowStateSave(CurrentState(w, FALSE))

(***************************************************************************)
(* Process enumeration (lib.rs:182-235 and 311-357).                       *)
(***************************************************************************)
\* CreateToolhelp32Snapshot + Process32FirstW/NextW: the live entries of the
\* process table, in the table's order
RECURSIVE SnapshotFrom(_, _)
SnapshotFrom(table, p) ==
    IF p > MaxPid THEN << >>
    ELSE (IF table[p] = NoProc THEN << >> ELSE << [pid |-> p, name |-> table[p]] >>)
         \o SnapshotFrom(table, p + 1)

Snapshot(table) == SnapshotFrom(table, 1)

\* lib.rs:313-316, the lower-cased file name of this executable, empty when
\* current_exe() fails
OurExe(exeOk) == IF exeOk THEN ToLowercase(AppName) ELSE << >>

\* lib.rs:220 and 345, the test applied to each snapshot entry
\* the sibling test without the comparison with the own pid
IsSibling_IncludesSelf(entry, our_pid, our_exe) ==
    ToLowercase(entry.name) = our_exe

\* the sibling test comparing the name as the snapshot spells it
IsSibling_CaseSensitive(entry, our_pid, our_exe) ==
    entry.name = AppName /\ entry.pid # our_pid

IsSibling(entry, our_pid, our_exe) ==
    ToLowercase(entry.name) = our_exe /\ entry.pid # our_pid

\* lib.rs:335-355, the loop that collects found_pids
RECURSIVE FoundPidsFrom(_, _, _, _)
FoundPidsFrom(entries, i, our_pid, our_exe) ==
    IF i > Len(entries) THEN << >>
    ELSE (IF IsSibling(entries[i], our_pid, our_exe) THEN << entries[i].pid >>
          ELSE << >>)
         \o FoundPidsFrom(entries, i + 1, our_pid, our_exe)

\* lib.rs:210-230, the loop that counts siblings
RECURSIVE CountFrom(_, _, _, _)
CountFrom(entries, i, our_pid, our_exe) ==
    IF i > Len(entries) THEN 0
    ELSE (IF IsSibling(entries[i], our_pid, our_exe) THEN 1 ELSE 0)
         + CountFrom(entries, i + 1, our_pid, our_exe)

\* count_sibling_instances(): 0 when the executable name or the snapshot is
\* unavailable
CountSiblingInstances(entries, our_pid, exeOk, snapOk) ==
    IF OurExe(exeOk) = << >> THEN 0
    ELSE IF ~snapOk THEN 0
    ELSE CountFrom(entries, 1, our_pid, OurExe(exeOk))

\* the enumeration part of enforce_single_instance(): found_pids, empty when
\* the function returned before or without finding anything
EnumerateSiblings(entries, our_pid, exeOk, snapOk) ==
    IF OurExe(exeOk) = << >> THEN << >>
    ELSE IF ~snapOk THEN << >>
    ELSE FoundPidsFrom(entries, 1, our_pid, OurExe(exeOk))

\* the offset computed from a count that includes this process
CascadeOffset_CountsSelf(mode, count) ==
    IF ~mode.some THEN (count + 1) * CascadeStep ELSE 0

\* lib.rs:28-32
CascadeOffset(mode, count) == IF ~mode.some THEN count * CascadeStep ELSE 0

(***************************************************************************)
(* activate_process_windows (lib.rs:246-296).  A top-level window is       *)
(* [owner, titleLen, minimized, visible]; its handle is its place in the   *)
(* enumeration order, 0 is the null handle.                                *)
(***************************************************************************)
Range(s) == { s[i] : i \in DOMAIN s }

\* one entry of the trace of what the process did
Entry(op, pids, n) == [op |-> op, pids |-> pids, n |-> n]

\* enum_callback without the title test of lib.rs:267
RECURSIVE EnumWindowsFind_IgnoresTitle(_, _, _)
EnumWindowsFind_IgnoresTitle(wins, pids, i) ==
    IF i > Len(wins) THEN 0
    ELSE IF wins[i].owner \in Range(pids) THEN i
    ELSE EnumWindowsFind_IgnoresTitle(wins, pids, i + 1)

\* EnumWindows with enum_callback: the first window owned by one of pids that
\* has title text
RECURSIVE EnumWindowsFind(_, _, _)
EnumWindowsFind(wins, pids, i) ==
    IF i > Len(wins) THEN 0
    ELSE IF wins[i].owner \in Range(pids) /\ wins[i].titleLen > 0 THEN i
    ELSE EnumWindowsFind(wins, pids, i + 1)

\* the requests of lib.rs:283-294 with the visibility test made first
ActivateRequests_VisibilityFirst(pids, wins) ==
    LET found == EnumWindowsFind(wins, pids, 1)
    IN  IF found = 0 THEN << >>
        ELSE (IF ~wins[found].visible
              THEN << Entry("ShowWindow_SW_SHOW", << >>, found) >>
              ELSE IF wins[found].minimized
                   THEN << Entry("ShowWindow_SW_RESTORE", << >>, found) >>
                   ELSE << >>)
             \o << Entry("SetForegroundWindow", << >>, found) >>

\* lib.rs:283-294, the requests issued for the window found
ActivateRequests(pids, wins) ==
    LET found == EnumWindowsFind(wins, pids, 1)
    IN  IF found = 0 THEN << >>
        ELSE (IF wins[found].minimized
              THEN << Entry("ShowWindow_SW_RESTORE", << >>, found) >>
              ELSE IF ~wins[found].visible
                   THEN << Entry("ShowWindow_SW_SHOW", << >>, found) >>
                   ELSE << >>)
             \o << Entry("SetForegroundWindow", << >>, found) >>

\* the desktop after those requests
ActivateProcessWindows(pids, wins) ==
    LET found == EnumWindowsFind(wins, pids, 1)
    IN  IF found = 0 THEN wins
        ELSE [wins EXCEPT ![found] = [@ EXCEPT !.minimized = FALSE, !.visible = TRUE]]

(***************************************************************************)
(* Configuration.  AppConfig::instance_mode() is called by run() and is    *)
(* not part of config.rs as given: "first" and "last" are recognised in    *)
(* any case, everything else is multi-instance mode.                       *)
(***************************************************************************)
InstanceMode(config) ==
    IF config.instance \in {"first", "FIRST", "First"} THEN Some("first")
    ELSE IF config.instance \in {"last", "LAST", "Last"} THEN Some("last")
    ELSE None

\* lib.rs:95, config.start_minimized.eq_ignore_ascii_case("on")
StartMinimized(config) == config.start_minimized \in {"on", "ON", "On", "oN"}

(***************************************************************************)
(* State.                                                                  *)
(***************************************************************************)
VARIABLES
    config,         \* the loaded configuration: [ok, instance, start_minimized]
    pc,             \* where run() stands
    our_pid,        \* GetCurrentProcessId()
    table,          \* the OS process table: pid -> executable name or NoProc
    topWindows,     \* the top-level windows of the desktop, in enumeration order
    found_pids,     \* enforce_single_instance: the sibling pids it collected
    next_kill,      \* enforce_single_instance: position of the "last" loop
    snap,           \* the entries of the snapshot count_sibling_instances took
    cascade_offset, \* run(): the offset handed to restore_window_state
    log,            \* what the process did to the outside, in order
    win,            \* the main window
    calls,          \* the calls restore_window_state made on the window
    subscribed,     \* whether the move/resize handler is registered
    pending,        \* move/resize notifications not yet delivered
    file,           \* content of <exe>.window.json
    storeTouched,   \* whether this process has read or written the file
    lastClass,      \* the branch save_window_state took on the last event
    rectSource,     \* where the stored rectangle comes from (history)
    saves,          \* state.save() calls made for the last event (history)
    evals,          \* the outcomes of this process's sibling enumerations (history)
    openedAt,       \* where the windows of the launches so far opened (history)
    probe,          \* the last direct call of WindowState::save or ::load
    procs           \* every launched copy of the executable: pid -> its state

startupVars == << config, pc, our_pid, table, topWindows, found_pids, next_kill,
                  snap, cascade_offset, log >>
startupVars_noPc == << config, our_pid, table, topWindows, found_pids, next_kill,
                       snap, cascade_offset, log >>
windowVars == << win, calls, subscribed, pending >>
storeVars == << file, storeTouched, lastClass, rectSource >>
histVars == << saves, evals, openedAt, probe, procs >>
vars == << config, pc, our_pid, table, topWindows, found_pids, next_kill, snap,
           cascade_offset, log, win, calls, subscribed, pending, file,
           storeTouched, lastClass, rectSource, saves, evals, openedAt, probe,
           procs >>

\* no direct call of the store has been made
NoProbe == [op |-> "none", arg |-> None, result |-> None]

\* a copy of the executable that was not launched, and the machine before
\* any launch that is followed copy by copy
NotLaunched == [st |-> "absent", alive |-> FALSE, found |-> << >>, next |-> 1,
                enum |-> "none", failed |-> FALSE]
NoProcs == [p \in PIDs |-> NotLaunched]

(***************************************************************************)
(* Inputs.                                                                 *)
(***************************************************************************)
\* values of the instance setting of the configuration
InstanceValues == {"", "FIRST", "last", "multi"}
\* positions and sizes the user gives the window
UserPositions == { [x |-> 10, y |-> 10], [x |-> 100, y |-> 50] }
UserSizes == { [width |-> MinRestoreSize - 1, height |-> MinRestoreSize],
               [width |-> 400, height |-> 300] }
\* records a previous run left in the file
StoredRecords ==
    { [x |-> 100, y |-> 50, width |-> w, height |-> h, maximized |-> m] :
        w \in {MinRestoreSize - 1, MinRestoreSize},
        h \in {MinRestoreSize - 1, MinRestoreSize + 100},
        m \in BOOLEAN }
InitialFiles == {Missing, Malformed} \cup { JsonObject(r) : r \in StoredRecords }
\* top-level windows
WindowDescs == [owner : PIDs, titleLen : {0, 7}, minimized : BOOLEAN,
                visible : BOOLEAN]

Rect(r) == [x |-> r.x, y |-> r.y, width |-> r.width, height |-> r.height]

\* the history of the stored rectangle for a file found at startup
PriorSource(f) ==
    IF WindowStateLoad(f).some
    THEN [kind |-> "prior", rect |-> Rect(WindowStateLoad(f).val)]
    ELSE [kind |-> "none", rect |-> Rect(NoWindow)]

(***************************************************************************)
(* Startup: run(), lib.rs:10-32.                                           *)
(***************************************************************************)
Exit(code) == Entry("exit", << >>, code)

\* the outcome of one enumeration: lib.rs:195-203 and 318-327 give up when
\* the executable name or the snapshot cannot be had
EnumOutcome(exeOk, snapOk) == IF exeOk /\ snapOk THEN "ok" ELSE "unavailable"

\* lib.rs:13-19
LoadConfig ==
    /\ pc = "start"
    /\ IF config.ok
       THEN /\ pc' = "enforce"
            /\ log' = log
       ELSE /\ pc' = "exited"
            /\ log' = log \o << Entry("show_config_error", << >>, 0),
                                Exit(ExitConfigError) >>
    /\ UNCHANGED << config, our_pid, table, topWindows, found_pids, next_kill,
                    snap, cascade_offset >>
    /\ UNCHANGED << windowVars, storeVars >>
    /\ UNCHANGED histVars

\* lib.rs:22, no instance mode configured: enforce_single_instance is not called
SkipEnforce ==
    /\ pc = "enforce"
    /\ ~InstanceMode(config).some
    /\ pc' = "cascade"
    /\ UNCHANGED << config, our_pid, table, topWindows, found_pids, next_kill,
                    snap, cascade_offset, log >>
    /\ UNCHANGED << windowVars, storeVars >>
    /\ UNCHANGED histVars

\* enforce_single_instance with the test of lib.rs:359 inverted
EnforceSnapshot_InvertedTest ==
    /\ pc = "enforce"
    /\ InstanceMode(config).some
    /\ \E exeOk \in BOOLEAN, snapOk \in BOOLEAN :
        LET entries == IF exeOk /\ snapOk THEN Snapshot(table) ELSE << >>
            found == EnumerateSiblings(entries, our_pid, exeOk, snapOk)
        IN  /\ found_pids' = found
            /\ pc' = IF found # << >> THEN "cascade" ELSE "dispatch"
            /\ evals' = Append(evals, EnumOutcome(exeOk, snapOk))
    /\ next_kill' = 1
    /\ UNCHANGED << config, our_pid, table, topWindows, snap, cascade_offset, log >>
    /\ UNCHANGED << windowVars, storeVars >>
    /\ UNCHANGED << saves, openedAt, probe, procs >>

\* lib.rs:311-361, enforce_single_instance up to the test of found_pids
EnforceSnapshot ==
    /\ pc = "enforce"
    /\ InstanceMode(config).some
    /\ \E exeOk \in BOOLEAN, snapOk \in BOOLEAN :
        LET entries == IF exeOk /\ snapOk THEN Snapshot(table) ELSE << >>
            found == EnumerateSiblings(entries, our_pid, exeOk, snapOk)
        IN  /\ found_pids' = found
            /\ pc' = IF found = << >> THEN "cascade" ELSE "dispatch"
            /\ evals' = Append(evals, EnumOutcome(exeOk, snapOk))
    /\ next_kill' = 1
    /\ UNCHANGED << config, our_pid, table, topWindows, snap, cascade_offset, log >>
    /\ UNCHANGED << windowVars, storeVars >>
    /\ UNCHANGED << saves, openedAt, probe, procs >>

\* mode "first" exiting only when a window was brought forward
EnforceFirst_ExitsOnlyIfActivated ==
    /\ pc = "dispatch"
    /\ InstanceMode(config) = Some("first")
    /\ IF EnumWindowsFind(topWindows, found_pids, 1) # 0
       THEN /\ log' = log \o << Entry("activate", found_pids, 0) >>
                          \o ActivateRequests(found_pids, topWindows)
                          \o << Exit(ExitDeferred) >>
            /\ pc' = "exited"
       ELSE /\ log' = log \o << Entry("activate", found_pids, 0) >>
            /\ pc' = "cascade"
    /\ topWindows' = ActivateProcessWindows(found_pids, topWindows)
    /\ UNCHANGED << config, our_pid, table, found_pids, next_kill, snap,
                    cascade_offset >>
    /\ UNCHANGED << windowVars, storeVars >>
    /\ UNCHANGED histVars

\* lib.rs:364-368, mode "first": activate the running instance and exit
EnforceFirst ==
    /\ pc = "dispatch"
    /\ InstanceMode(config) = Some("first")
    /\ log' = log \o << Entry("activate", found_pids, 0) >>
                  \o ActivateRequests(found_pids, topWindows)
                  \o << Exit(ExitDeferred) >>
    /\ topWindows' = ActivateProcessWindows(found_pids, topWindows)
    /\ pc' = "exited"
    /\ UNCHANGED << config, our_pid, table, found_pids, next_kill, snap,
                    cascade_offset >>
    /\ UNCHANGED << windowVars, storeVars >>
    /\ UNCHANGED histVars

\* the loop of lib.rs:371-378 leaving at the first pid it cannot terminate
EnforceLastTerminate_StopsOnFailure ==
    /\ pc = "dispatch"
    /\ InstanceMode(config) = Some("last")
    /\ next_kill <= Len(found_pids)
    /\ LET pid == found_pids[next_kill]
       IN  \E opened \in BOOLEAN, killed \in BOOLEAN :
            /\ opened => table[pid] # NoProc
            /\ killed => opened
            /\ log' = log \o << Entry("OpenProcess", << >>, pid) >>
                          \o (IF opened
                              THEN << Entry("TerminateProcess", << >>, pid) >>
                              ELSE << >>)
                          \o (IF killed THEN << >>
                              ELSE << Entry("failed", << >>, pid) >>)
            /\ table' = IF killed THEN [table EXCEPT ![pid] = NoProc] ELSE table
            /\ next_kill' = IF killed THEN next_kill + 1 ELSE Len(found_pids) + 1
    /\ UNCHANGED << config, pc, our_pid, topWindows, found_pids, snap,
                    cascade_offset >>
    /\ UNCHANGED << windowVars, storeVars >>
    /\ UNCHANGED histVars

\* lib.rs:371-378, mode "last": one turn of the loop over found_pids; a
\* "failed" entry marks an OpenProcess or TerminateProcess that did not succeed
EnforceLastTerminate ==
    /\ pc = "dispatch"
    /\ InstanceMode(config) = Some("last")
    /\ next_kill <= Len(found_pids)
    /\ LET pid == found_pids[next_kill]
       IN  \E opened \in BOOLEAN, killed \in BOOLEAN :
            /\ opened => table[pid] # NoProc
            /\ killed => opened
            /\ log' = log \o << Entry("OpenProcess", << >>, pid) >>
                          \o (IF opened
                              THEN << Entry("TerminateProcess", << >>, pid) >>
                              ELSE << >>)
                          \o (IF killed THEN << >>
                              ELSE << Entry("failed", << >>, pid) >>)
            /\ table' = IF killed THEN [table EXCEPT ![pid] = NoProc] ELSE table
    /\ next_kill' = next_kill + 1
    /\ UNCHANGED << config, pc, our_pid, topWindows, found_pids, snap,
                    cascade_offset >>
    /\ UNCHANGED << windowVars, storeVars >>
    /\ UNCHANGED histVars

\* lib.rs:380, the grace sleep, after which enforce_single_instance returns
EnforceLastSleep ==
    /\ pc = "dispatch"
    /\ InstanceMode(config) = Some("last")
    /\ next_kill > Len(found_pids)
    /\ log' = log \o << Entry("sleep", << >>, GraceMillis) >>
    /\ pc' = "cascade"
    /\ UNCHANGED << config, our_pid, table, topWindows, found_pids, next_kill,
                    snap, cascade_offset >>
    /\ UNCHANGED << windowVars, storeVars >>
    /\ UNCHANGED histVars

\* the cascade offset computed from a count taken under every policy
ComputeCascade_AlwaysCounts ==
    /\ pc = "cascade"
    /\ \E exeOk \in BOOLEAN, snapOk \in BOOLEAN :
          LET entries == IF exeOk /\ snapOk THEN Snapshot(table) ELSE << >>
          IN  /\ snap' = entries
              /\ cascade_offset' =
                    CascadeOffset(InstanceMode(config),
                        CountSiblingInstances(entries, our_pid, exeOk, snapOk))
              /\ evals' = Append(evals, EnumOutcome(exeOk, snapOk))
    /\ pc' = "create"
    /\ UNCHANGED << config, our_pid, table, topWindows, found_pids, next_kill, log >>
    /\ UNCHANGED << windowVars, storeVars >>
    /\ UNCHANGED << saves, openedAt, probe, procs >>

\* lib.rs:28-32, the cascade offset
ComputeCascade ==
    /\ pc = "cascade"
    /\ IF ~InstanceMode(config).some
       THEN \E exeOk \in BOOLEAN, snapOk \in BOOLEAN :
              LET entries == IF exeOk /\ snapOk THEN Snapshot(table) ELSE << >>
              IN  /\ snap' = entries
                  /\ cascade_offset' =
                        CascadeOffset(InstanceMode(config),
                            CountSiblingInstances(entries, our_pid, exeOk, snapOk))
                  /\ evals' = Append(evals, EnumOutcome(exeOk, snapOk))
       ELSE /\ snap' = snap
            /\ cascade_offset' = CascadeOffset(InstanceMode(config), 0)
            /\ evals' = evals
    /\ pc' = "create"
    /\ UNCHANGED << config, our_pid, table, topWindows, found_pids, next_kill, log >>
    /\ UNCHANGED << windowVars, storeVars >>
    /\ UNCHANGED << saves, openedAt, probe, procs >>

\* lib.rs:44-48, the builder creates the main window and setup begins
CreateWindow ==
    /\ pc = "create"
    /\ \E frame \in Frames : win' = [NewWindow EXCEPT !.frame = frame]
    /\ log' = log \o << Entry("create_window", << >>, 0) >>
    /\ pc' = "setup"
    /\ UNCHANGED << config, our_pid, table, topWindows, found_pids, next_kill,
                    snap, cascade_offset >>
    /\ UNCHANGED << calls, subscribed, pending, storeVars >>
    /\ UNCHANGED histVars

(***************************************************************************)
(* The rest of the machine while the process starts.                       *)
(***************************************************************************)
\* the process table is read by the two snapshots and by OpenProcess: it is
\* left alone once the process will not read it again
TableMatters ==
    \/ pc \in {"start", "enforce", "cascade"}
    \/ pc = "dispatch" /\ InstanceMode(config) = Some("last")

\* another process starts
ProcessStarts ==
    /\ TableMatters
    /\ \E p \in PIDs \ {our_pid}, name \in ExeNames :
        /\ table[p] = NoProc
        /\ table' = [table EXCEPT ![p] = name]
    /\ UNCHANGED << config, pc, our_pid, topWindows, found_pids, next_kill, snap,
                    cascade_offset, log >>
    /\ UNCHANGED << windowVars, storeVars >>
    /\ UNCHANGED histVars

\* a top-level window appears on the desktop; the desktop is read only by
\* activate_process_windows, so its windows are chosen when the process is
\* about to call it
WindowAppears ==
    /\ pc = "dispatch"
    /\ InstanceMode(config) = Some("first")
    /\ Len(topWindows) < MaxWindows
    /\ \E w \in WindowDescs : topWindows' = Append(topWindows, w)
    /\ UNCHANGED << config, pc, our_pid, table, found_pids, next_kill, snap,
                    cascade_offset, log >>
    /\ UNCHANGED << windowVars, storeVars >>
    /\ UNCHANGED histVars

\* another process ends
ProcessExits ==
    /\ TableMatters
    /\ \E p \in PIDs \ {our_pid} :
        /\ table[p] # NoProc
        /\ table' = [table EXCEPT ![p] = NoProc]
    /\ UNCHANGED << config, pc, our_pid, topWindows, found_pids, next_kill, snap,
                    cascade_offset, log >>
    /\ UNCHANGED << windowVars, storeVars >>
    /\ UNCHANGED histVars

(***************************************************************************)
(* The setup closure: lib.rs:45-100.                                       *)
(***************************************************************************)
\* lib.rs:51, restore_window_state(&window, cascade_offset); each call made
\* on the window raises a move/resize notification, delivered once the
\* event loop runs again
SetupRestore ==
    /\ pc = "setup"
    /\ LET r == RestoreWindowState(win, WindowStateLoad(file), cascade_offset)
       IN  /\ win' = r.win
           /\ calls' = r.calls
           /\ pending' = pending + Len(r.calls)
    /\ storeTouched' = TRUE
    /\ log' = log \o << Entry("restore_window_state", << >>, cascade_offset) >>
    /\ pc' = "restored"
    /\ UNCHANGED << config, our_pid, table, topWindows, found_pids, next_kill,
                    snap, cascade_offset >>
    /\ UNCHANGED << subscribed, file, lastClass, rectSource >>
    /\ openedAt' = Append(openedAt, OuterPosition(win'))
    /\ UNCHANGED << saves, evals, probe, procs >>

\* lib.rs:80-88, window.on_window_event(...)
SetupSubscribe ==
    /\ pc = "restored"
    /\ subscribed' = TRUE
    /\ calls' = << >>
    /\ log' = log \o << Entry("on_window_event", << >>, 0) >>
    /\ pc' = "subscribed"
    /\ UNCHANGED << config, our_pid, table, topWindows, found_pids, next_kill,
                    snap, cascade_offset >>
    /\ UNCHANGED << win, pending, storeVars >>
    /\ UNCHANGED histVars

\* lib.rs:90-99, navigate and, when configured, start minimized
SetupFinish ==
    /\ pc = "subscribed"
    /\ IF StartMinimized(config)
       THEN /\ win' = Minimize(win)
            /\ pending' = pending + 1
       ELSE /\ win' = win
            /\ pending' = pending
    /\ pc' = "running"
    /\ UNCHANGED << startupVars_noPc, calls, subscribed, storeVars >>
    /\ UNCHANGED histVars

(***************************************************************************)
(* The event loop: lib.rs:80-88 calling save_window_state.                 *)
(***************************************************************************)
\* the history of the stored rectangle after an event of class c
SourceAfter(c, w, src) ==
    CASE c = "normal" -> [kind |-> "normal", rect |-> Rect(CurrentState(w, FALSE))]
      [] c = "maximized_new" ->
            [kind |-> "maximized", rect |-> Rect(CurrentState(w, TRUE))]
      [] OTHER -> src

\* one Moved or Resized notification is delivered
HandleEvent ==
    /\ pc = "running"
    /\ subscribed
    /\ pending > 0
    /\ pending' = pending - 1
    /\ file' = SaveWindowState(win, file)
    /\ lastClass' = Classify(win, file)
    /\ rectSource' = SourceAfter(Classify(win, file), win, rectSource)
    /\ storeTouched' = TRUE
    /\ UNCHANGED << startupVars, win, calls, subscribed >>
    /\ saves' = SaveCalls(win, file)
    /\ UNCHANGED << evals, openedAt, probe, procs >>

(***************************************************************************)
(* The user and the rest of the machine while the window is open.          *)
(***************************************************************************)
UserCanAct == pc = "running" /\ pending < MaxPending

UserMoves ==
    /\ UserCanAct
    /\ ~win.minimized /\ ~win.maximized
    /\ \E p \in UserPositions : win' = SetPosition(win, p.x, p.y)
    /\ pending' = pending + 1
    /\ UNCHANGED << startupVars, calls, subscribed, storeVars >>
    /\ UNCHANGED histVars

UserResizes ==
    /\ UserCanAct
    /\ ~win.minimized /\ ~win.maximized
    /\ \E s \in UserSizes : win' = SetSize(win, s.width, s.height)
    /\ pending' = pending + 1
    /\ UNCHANGED << startupVars, calls, subscribed, storeVars >>
    /\ UNCHANGED histVars

UserMinimizes ==
    /\ UserCanAct
    /\ ~win.minimized
    /\ win' = Minimize(win)
    /\ pending' = pending + 1
    /\ UNCHANGED << startupVars, calls, subscribed, storeVars >>
    /\ UNCHANGED histVars

\* the user brings a minimized window back
UserUnminimizes ==
    /\ UserCanAct
    /\ win.minimized
    /\ win' = [win EXCEPT !.minimized = FALSE]
    /\ pending' = pending + 1
    /\ UNCHANGED << startupVars, calls, subscribed, storeVars >>
    /\ UNCHANGED histVars

UserMaximizes ==
    /\ UserCanAct
    /\ ~win.minimized /\ ~win.maximized
    /\ win' = Maximize(win)
    /\ pending' = pending + 1
    /\ UNCHANGED << startupVars, calls, subscribed, storeVars >>
    /\ UNCHANGED histVars

UserUnmaximizes ==
    /\ UserCanAct
    /\ ~win.minimized /\ win.maximized
    /\ win' = [win EXCEPT !.maximized = FALSE]
    /\ pending' = pending + 1
    /\ UNCHANGED << startupVars, calls, subscribed, storeVars >>
    /\ UNCHANGED histVars

\* the file is deleted or overwritten with something that does not parse
FileDamaged ==
    /\ pc = "running"
    /\ file.kind = "object"
    /\ \E f \in {Missing, Malformed} : file' = f
    /\ rectSource' = PriorSource(Missing)
    /\ UNCHANGED << startupVars, windowVars, storeTouched, lastClass >>
    /\ UNCHANGED histVars

(***************************************************************************)
(* Specifications.                                                         *)
(***************************************************************************)
\* the process table with our own entry at pid p and the others as given
TableWith(p, others) == [q \in PIDs |-> IF q = p THEN AppName ELSE others[q]]

InitCommon ==
    /\ pc = "start"
    /\ found_pids = << >>
    /\ next_kill = 1
    /\ snap = << >>
    /\ cascade_offset = 0
    /\ log = << >>
    /\ win = NoWindow
    /\ calls = << >>
    /\ subscribed = FALSE
    /\ pending = 0
    /\ storeTouched = FALSE
    /\ lastClass = "none"
    /\ rectSource = PriorSource(file)
    /\ saves = 0
    /\ evals = << >>
    /\ openedAt = << >>
    /\ probe = NoProbe
    /\ procs = NoProcs

\* startup on any machine: any process table, any configuration
InitStartup ==
    /\ config \in [ok : BOOLEAN, instance : InstanceValues, start_minimized : {""}]
    /\ our_pid \in PIDs
    /\ \E others \in [PIDs -> ExeNames \cup {NoProc}] :
            table = TableWith(our_pid, others)
    /\ topWindows = << >>
    /\ file \in {Missing}
    /\ InitCommon

NextStartup ==
    \/ LoadConfig
    \/ SkipEnforce
    \/ EnforceSnapshot
    \/ EnforceFirst
    \/ EnforceLastTerminate
    \/ EnforceLastSleep
    \/ ComputeCascade
    \/ CreateWindow
    \/ SetupRestore
    \/ ProcessStarts
    \/ ProcessExits
    \/ WindowAppears

SpecStartup == InitStartup /\ [][NextStartup]_vars

\* the life of the window: no sibling under "first" and "last", up to
\* MaxPid - 1 siblings in multi-instance mode, any file left by earlier runs
Init ==
    /\ config \in [ok : {TRUE}, instance : {"", "first", "last"},
                   start_minimized : {"", "on"}]
    /\ our_pid = 1
    /\ \E n \in 0..(MaxPid - 1) :
        /\ InstanceMode(config).some => n = 0
        /\ table = [q \in PIDs |-> IF q = 1 THEN AppName
                                   ELSE IF q <= n + 1 THEN <<"A", "P", "P">>
                                   ELSE NoProc]
    /\ topWindows = << >>
    /\ file \in InitialFiles
    /\ InitCommon

Next ==
    \/ LoadConfig
    \/ SkipEnforce
    \/ EnforceSnapshot
    \/ ComputeCascade
    \/ CreateWindow
    \/ SetupRestore
    \/ SetupSubscribe
    \/ SetupFinish
    \/ HandleEvent
    \/ UserMoves
    \/ UserResizes
    \/ UserMinimizes
    \/ UserUnminimizes
    \/ UserMaximizes
    \/ UserUnmaximizes
    \/ FileDamaged

Spec == Init /\ [][Next]_vars

(***************************************************************************)
(* Launches one after another in multi-instance mode.  The launched        *)
(* process stays the one followed; the earlier ones keep running, idle,    *)
(* as entries of the process table.                                        *)
(***************************************************************************)
\* the user starts one more copy (run(), lib.rs:10) once the events of the
\* last one are handled and its sibling count was taken from a snapshot
LaunchNext ==
    /\ pc = "running"
    /\ pending = 0
    /\ evals = << "ok" >>
    /\ \E p \in PIDs :
        /\ table[p] = NoProc
        /\ our_pid' = p
        /\ table' = [table EXCEPT ![p] = AppName]
    /\ pc' = "start"
    /\ found_pids' = << >>
    /\ next_kill' = 1
    /\ snap' = << >>
    /\ cascade_offset' = 0
    /\ log' = << >>
    /\ win' = NoWindow
    /\ calls' = << >>
    /\ subscribed' = FALSE
    /\ pending' = 0
    /\ storeTouched' = FALSE
    /\ lastClass' = "none"
    /\ rectSource' = PriorSource(file)
    /\ saves' = 0
    /\ evals' = << >>
    /\ UNCHANGED << config, topWindows, file, openedAt, probe, procs >>

\* the first launch: multi-instance mode, no sibling yet, no file or a
\* record of a normal window
InitCascade ==
    /\ config = [ok |-> TRUE, instance |-> "", start_minimized |-> ""]
    /\ our_pid = 1
    /\ table = [q \in PIDs |-> IF q = 1 THEN AppName ELSE NoProc]
    /\ topWindows = << >>
    /\ file \in {Missing} \cup { JsonObject(r) : r \in { s \in StoredRecords : ~s.maximized } }
    /\ InitCommon

NextCascade ==
    \/ LoadConfig
    \/ SkipEnforce
    \/ ComputeCascade
    \/ CreateWindow
    \/ SetupRestore
    \/ SetupSubscribe
    \/ SetupFinish
    \/ HandleEvent
    \/ LaunchNext

SpecCascade == InitCascade /\ [][NextCascade]_vars

(***************************************************************************)
(* The store called directly: WindowState::save and WindowState::load on   *)
(* any record and on any content of the file.                              *)
(***************************************************************************)
\* records over the range of the field types: i32 for x and y, u32 for
\* width and height (up to the largest integer used here)
ProbeRecords ==
    [x : {-2147483647, MinimizedCoord, 0, 100, 2147483647},
     y : {-2147483647, 0, 50},
     width : {0, MinRestoreSize, 2147483647},
     height : {0, MinRestoreSize + 100, 2147483647},
     maximized : BOOLEAN]

\* the object o without member k, and with member k set to v
Without(o, k) == [n \in DOMAIN o \ {k} |-> o[n]]
WithMember(o, k, v) == [n \in DOMAIN o \cup {k} |-> IF n = k THEN v ELSE o[n]]

\* what the file can hold when load() is called: nothing, something that
\* cannot be read, something that is not JSON, a record, a record lacking
\* one member, a record with a member WindowState does not have, a record
\* with a negative size
StoreContents ==
    LET base == { r \in StoredRecords : r.width = MinRestoreSize }
    IN  {Missing, Unreadable, Malformed}
        \cup { JsonObject(r) : r \in base }
        \cup { JsonObject(Without(r, k)) : r \in base, k \in WindowStateFields }
        \cup { JsonObject(WithMember(r, "monitor", 1)) : r \in base }
        \cup { JsonObject(WithMember(Without(r, k), "monitor", 1)) :
                    r \in base, k \in WindowStateFields }
        \cup { JsonObject([r EXCEPT !.width = -1]) : r \in base }

\* config.rs:144-150, state.save() for a record g
StoreSave ==
    /\ \E g \in ProbeRecords :
        /\ file' = WindowStateSave(g)
        /\ probe' = [op |-> "save", arg |-> Some(g), result |-> None]
    /\ UNCHANGED << startupVars, windowVars, storeTouched, lastClass, rectSource >>
    /\ UNCHANGED << saves, evals, openedAt, procs >>

\* config.rs:138-142, WindowState::load(); "save_load" when nothing wrote
\* the file since the save before it
StoreLoad ==
    /\ probe' = [op |-> IF probe.op = "save" THEN "save_load" ELSE "load",
                 arg |-> probe.arg,
                 result |-> WindowStateLoad(file)]
    /\ UNCHANGED << startupVars, windowVars, storeVars >>
    /\ UNCHANGED << saves, evals, openedAt, procs >>

InitStore ==
    /\ config = [ok |-> TRUE, instance |-> "", start_minimized |-> ""]
    /\ our_pid = 1
    /\ table = [q \in PIDs |-> IF q = 1 THEN AppName ELSE NoProc]
    /\ topWindows = << >>
    /\ file \in StoreContents
    /\ InitCommon

NextStore ==
    \/ StoreSave
    \/ StoreLoad

SpecStore == InitStore /\ [][NextStore]_vars

(***************************************************************************)
(* activate_process_windows on any desktop: the process stands in          *)
(* enforce_single_instance under "first", its siblings enumerated.         *)
(***************************************************************************)
\* the desktops of up to n top-level windows
Desktops(n) == UNION { [1..k -> WindowDescs] : k \in 0..n }

InitActivate ==
    /\ config = [ok |-> TRUE, instance |-> "first", start_minimized |-> ""]
    /\ our_pid = 1
    /\ \E sibs \in (SUBSET (PIDs \ {1})) \ {{}} :
            table = [q \in PIDs |-> IF q = 1 THEN AppName
                                    ELSE IF q \in sibs THEN <<"A", "P", "P">>
                                    ELSE <<"A", "p", "x">>]
    /\ topWindows \in Desktops(MaxDesktop)
    /\ file = Missing
    /\ pc = "dispatch"
    /\ found_pids = EnumerateSiblings(Snapshot(table), our_pid, TRUE, TRUE)
    /\ evals = << "ok" >>
    /\ next_kill = 1
    /\ snap = << >>
    /\ cascade_offset = 0
    /\ log = << >>
    /\ win = NoWindow
    /\ calls = << >>
    /\ subscribed = FALSE
    /\ pending = 0
    /\ storeTouched = FALSE
    /\ lastClass = "none"
    /\ rectSource = PriorSource(file)
    /\ saves = 0
    /\ openedAt = << >>
    /\ probe = NoProbe
    /\ procs = NoProcs

NextActivate == EnforceFirst

SpecActivate == InitActivate /\ [][NextActivate]_vars

(***************************************************************************)
(* One whole run: any policy with any number of siblings, from the loaded  *)
(* configuration to the window's life.                                     *)
(***************************************************************************)
InitRun ==
    /\ config \in [ok : {TRUE}, instance : {"", "first", "last"},
                   start_minimized : {"", "on"}]
    /\ our_pid = 1
    /\ \E n \in 0..(MaxPid - 1) :
        table = [q \in PIDs |-> IF q = 1 THEN AppName
                                ELSE IF q <= n + 1 THEN <<"A", "P", "P">>
                                ELSE NoProc]
    /\ topWindows = << >>
    /\ file \in {Missing, JsonObject([x |-> 100, y |-> 50, width |-> 400,
                                     height |-> 300, maximized |-> FALSE])}
    /\ InitCommon

NextRun ==
    \/ LoadConfig
    \/ SkipEnforce
    \/ EnforceSnapshot
    \/ EnforceFirst
    \/ EnforceLastTerminate
    \/ EnforceLastSleep
    \/ ComputeCascade
    \/ CreateWindow
    \/ SetupRestore
    \/ SetupSubscribe
    \/ SetupFinish
    \/ HandleEvent
    \/ UserMoves
    \/ UserMinimizes
    \/ UserUnminimizes
    \/ UserMaximizes
    \/ UserUnmaximizes

SpecRun == InitRun /\ [][NextRun]_vars

(***************************************************************************)
(* One instance alone, started on a record of a valid size and left to     *)
(* itself: restore, then the notifications restore's own calls raise.      *)
(***************************************************************************)
\* records restore applies whole: both sides at least MinRestoreSize
ValidRecords ==
    [x : {100}, y : {50}, width : {MinRestoreSize, 400},
     height : {MinRestoreSize, 300}, maximized : BOOLEAN]

InitRestoreCapture ==
    /\ config \in [ok : {TRUE}, instance : {"", "first", "last"},
                   start_minimized : {"", "on"}]
    /\ our_pid = 1
    /\ table = [q \in PIDs |-> IF q = 1 THEN AppName ELSE NoProc]
    /\ topWindows = << >>
    /\ file \in { JsonObject(g) : g \in ValidRecords }
    /\ InitCommon

NextRestoreCapture ==
    \/ LoadConfig
    \/ SkipEnforce
    \/ EnforceSnapshot
    \/ ComputeCascade
    \/ CreateWindow
    \/ SetupRestore
    \/ SetupSubscribe
    \/ SetupFinish
    \/ HandleEvent

SpecRestoreCapture == InitRestoreCapture /\ [][NextRestoreCapture]_vars

(***************************************************************************)
(* Several copies of the executable launched under the same policy, each   *)
(* running enforce_single_instance (lib.rs:302-384) at its own pace.       *)
(* procs[p] is the copy with pid p: where it stands (st), whether the      *)
(* process is alive, the found_pids it collected, its place in the "last"  *)
(* loop, the outcome of its enumeration and whether one of its             *)
(* terminations failed.                                                    *)
(***************************************************************************)
\* the process table CreateToolhelp32Snapshot reads (lib.rs:322): a copy is
\* listed from its launch to its end
ProcTable(ps) == [p \in PIDs |-> IF ps[p].alive THEN AppName ELSE NoProc]

\* the steps of this section leave the copy followed singly where it was
ProcFrame ==
    UNCHANGED << config, pc, our_pid, found_pids, next_kill, snap, cascade_offset,
                 log, windowVars, storeVars, saves, evals, openedAt, probe >>

\* a copy is started: run(), lib.rs:10-24
ProcLaunch ==
    /\ \E p \in PIDs :
        /\ procs[p].st = "absent"
        /\ procs' = [procs EXCEPT ![p] = [NotLaunched EXCEPT !.st = "enforce",
                                                            !.alive = TRUE]]
    /\ table' = ProcTable(procs')
    /\ UNCHANGED topWindows
    /\ ProcFrame

\* lib.rs:311-361, the enumeration and the test of found_pids
ProcSnapshot ==
    /\ InstanceMode(config).some
    /\ \E p \in PIDs, exeOk \in BOOLEAN, snapOk \in BOOLEAN :
        /\ procs[p].alive
        /\ procs[p].st = "enforce"
        /\ LET entries == IF exeOk /\ snapOk THEN Snapshot(ProcTable(procs))
                          ELSE << >>
               found == EnumerateSiblings(entries, p, exeOk, snapOk)
           IN  procs' = [procs EXCEPT ![p] =
                            [@ EXCEPT !.found = found,
                                      !.enum = EnumOutcome(exeOk, snapOk),
                                      !.st = IF found = << >> THEN "passed"
                                             ELSE "dispatch"]]
    /\ table' = ProcTable(procs')
    /\ UNCHANGED topWindows
    /\ ProcFrame

\* "first" without the exit of lib.rs:367: the copy activates and goes on
ProcFirst_NoExit ==
    /\ InstanceMode(config) = Some("first")
    /\ \E p \in PIDs :
        /\ procs[p].alive
        /\ procs[p].st = "dispatch"
        /\ topWindows' = ActivateProcessWindows(procs[p].found, topWindows)
        /\ procs' = [procs EXCEPT ![p] = [@ EXCEPT !.st = "passed"]]
    /\ table' = ProcTable(procs')
    /\ ProcFrame

\* lib.rs:364-368, "first": activate the copies found and exit
ProcFirst ==
    /\ InstanceMode(config) = Some("first")
    /\ \E p \in PIDs :
        /\ procs[p].alive
        /\ procs[p].st = "dispatch"
        /\ topWindows' = ActivateProcessWindows(procs[p].found, topWindows)
        /\ procs' = [procs EXCEPT ![p] = [@ EXCEPT !.st = "deferred",
                                                   !.alive = FALSE]]
    /\ table' = ProcTable(procs')
    /\ ProcFrame

\* lib.rs:373-374, "last": OpenProcess on the next pid of found_pids, which
\* fails for a process that is gone, and the call of TerminateProcess
ProcLastCall ==
    /\ InstanceMode(config) = Some("last")
    /\ \E p \in PIDs :
        /\ procs[p].alive
        /\ procs[p].st = "dispatch"
        /\ procs[p].next <= Len(procs[p].found)
        /\ procs' = [procs EXCEPT ![p] =
                        IF procs[procs[p].found[procs[p].next]].alive
                        THEN [@ EXCEPT !.st = "calling"]
                        ELSE [@ EXCEPT !.next = @ + 1]]
    /\ table' = ProcTable(procs')
    /\ UNCHANGED topWindows
    /\ ProcFrame

\* lib.rs:374-375, TerminateProcess takes effect and returns.  The call is
\* served by the system: once entered it is carried out even when the
\* caller is itself being terminated by another copy in the meantime.
ProcLastDone ==
    /\ InstanceMode(config) = Some("last")
    /\ \E p \in PIDs, killed \in BOOLEAN :
        /\ procs[p].st = "calling"
        /\ LET q == procs[p].found[procs[p].next]
               after == [procs EXCEPT ![p] =
                            [@ EXCEPT !.st = "dispatch", !.next = @ + 1,
                                      !.failed = @ \/ (procs[q].alive /\ ~killed)]]
           IN  procs' = IF killed /\ procs[q].alive
                        THEN [after EXCEPT ![q] = [@ EXCEPT !.alive = FALSE]]
                        ELSE after
    /\ table' = ProcTable(procs')
    /\ UNCHANGED topWindows
    /\ ProcFrame

\* lib.rs:380, the sleep after the loop, and the return to run()
ProcLastSleep ==
    /\ InstanceMode(config) = Some("last")
    /\ \E p \in PIDs :
        /\ procs[p].alive
        /\ procs[p].st = "dispatch"
        /\ procs[p].next > Len(procs[p].found)
        /\ procs' = [procs EXCEPT ![p] = [@ EXCEPT !.st = "passed"]]
    /\ table' = ProcTable(procs')
    /\ UNCHANGED topWindows
    /\ ProcFrame

\* a copy that passed enforcement ends: the user closes its window
ProcCloses ==
    /\ \E p \in PIDs :
        /\ procs[p].alive
        /\ procs[p].st = "passed"
        /\ procs' = [procs EXCEPT ![p] = [@ EXCEPT !.st = "closed",
                                                   !.alive = FALSE]]
    /\ table' = ProcTable(procs')
    /\ UNCHANGED topWindows
    /\ ProcFrame

\* a machine without a copy running; every copy is configured alike, with
\* the given instance value
InitInstances(instance) ==
    /\ config = [ok |-> TRUE, instance |-> instance, start_minimized |-> ""]
    /\ our_pid = 1
    /\ table = [q \in PIDs |-> NoProc]
    /\ topWindows = << >>
    /\ file = Missing
    /\ InitCommon

InitFirstInstances == InitInstances("first")

NextFirstInstances ==
    \/ ProcLaunch
    \/ ProcSnapshot
    \/ ProcFirst
    \/ ProcCloses

SpecFirstInstances == InitFirstInstances /\ [][NextFirstInstances]_vars

InitLastInstances == InitInstances("last")

NextLastInstances ==
    \/ ProcLaunch
    \/ ProcSnapshot
    \/ ProcLastCall
    \/ ProcLastDone
    \/ ProcLastSleep
    \/ ProcCloses

SpecLastInstances == InitLastInstances /\ [][NextLastInstances]_vars

(***************************************************************************)
(* Properties.                                                             *)
(***************************************************************************)
\* the places of the log where op was done
LogPlaces(op) == { i \in DOMAIN log : log[i].op = op }
\* the record the file holds, if it parses
Stored == WindowStateLoad(file)
\* the window's outer bounds as one record
OuterBounds(w) == [x |-> OuterPosition(w).x, y |-> OuterPosition(w).y,
                   width |-> OuterSize(w).width, height |-> OuterSize(w).height]

\* C1 as stated: whenever the stored record has maximized = true, its
\* rectangle is the last one known from a window in normal state, never one
\* taken from a maximized window.
C1_Original ==
    (Stored.some /\ Stored.val.maximized) =>
        /\ rectSource.kind # "maximized"
        /\ Rect(Stored.val) = rectSource.rect

\* C1 as amended: whenever the stored record has maximized = true and was not
\* created by a capture that found no record while the window was maximized,
\* its rectangle is the one of the last capture in normal state (or, before
\* any such capture, the one found in the file at startup).
C1_NormalRectKept ==
    (Stored.some /\ Stored.val.maximized /\ rectSource.kind # "maximized") =>
        /\ rectSource.kind \in {"normal", "prior"}
        /\ Rect(Stored.val) = rectSource.rect

\* C1 witness: a window captured in normal state, then maximized and captured
\* again; the store keeps the normal rectangle under maximized = true
C1_Witness ==
    /\ lastClass = "maximized_flag"
    /\ rectSource.kind = "normal"
    /\ Stored.some /\ Stored.val.maximized
    /\ IsMaximized(win)
    /\ Rect(Stored.val) # OuterBounds(win)

\* two characters that differ at most in case
SameCharIgnoringCase(a, b) ==
    \/ a = b
    \/ \E pair \in { {"a", "A"}, {"p", "P"}, {"x", "X"} } : {a, b} = pair

\* two names that differ at most in case
SameNameIgnoringCase(n, m) ==
    /\ Len(n) = Len(m)
    /\ \A i \in 1..Len(n) : SameCharIgnoringCase(n[i], m[i])

\* the siblings among the entries of a snapshot: same executable name up to
\* case, another pid
SiblingsIn(entries) ==
    { i \in DOMAIN entries :
        SameNameIgnoringCase(entries[i].name, AppName) /\ entries[i].pid # our_pid }

FirstMode == InstanceMode(config) = Some("first")
LastMode == InstanceMode(config) = Some("last")
NoneMode == ~InstanceMode(config).some

\* C2: under First policy, once enumeration has found siblings the process
\* can only exit: its next step is the activation and exit, and after it the
\* process has exited with code 0 after exactly one activate call, made with
\* the sibling pids, with no window created and the geometry file untouched,
\* whether or not activate found a window.
C2_FirstDefers ==
    (FirstMode /\ found_pids # << >>) =>
        /\ pc \in {"dispatch", "exited"}
        /\ ~win.exists
        /\ ~storeTouched
        /\ file = Missing
        /\ LogPlaces("create_window") = {}
        /\ pc = "dispatch" =>
            /\ ENABLED EnforceFirst
            /\ ~ENABLED EnforceLastTerminate
            /\ ~ENABLED EnforceLastSleep
            /\ log = << >>
        /\ pc = "exited" =>
            /\ Cardinality(LogPlaces("activate")) = 1
            /\ log[1] = Entry("activate", found_pids, 0)
            /\ log[Len(log)] = Entry("exit", << >>, 0)
            /\ Cardinality(LogPlaces("exit")) = 1

\* C2 witness: the process has deferred although no window qualified
C2_Witness ==
    /\ FirstMode
    /\ found_pids # << >>
    /\ pc = "exited"
    /\ EnumWindowsFind(topWindows, found_pids, 1) = 0
    /\ topWindows # << >>

\* the attempts of the "last" loop: the pids OpenProcess was called on, in order
RECURSIVE AttemptsFrom(_)
AttemptsFrom(i) ==
    IF i > Len(log) THEN << >>
    ELSE (IF log[i].op = "OpenProcess" THEN << log[i].n >> ELSE << >>)
         \o AttemptsFrom(i + 1)

\* C3: under Last policy with siblings found, once the loop is over there has
\* been exactly one termination attempt per enumerated sibling pid and none
\* on the process's own pid, every TerminateProcess belongs to such an
\* attempt, the 200 ms sleep follows all of them, the process has not exited,
\* and the window is created only after the sleep.
C3_LastSupersedes ==
    (LastMode /\ found_pids # << >>) =>
        /\ pc # "exited"
        /\ LogPlaces("exit") = {}
        /\ our_pid \notin Range(found_pids)
        /\ \A i, j \in DOMAIN found_pids : found_pids[i] = found_pids[j] => i = j
        /\ \A i \in LogPlaces("TerminateProcess") :
                i > 1 /\ log[i - 1] = Entry("OpenProcess", << >>, log[i].n)
        /\ \A i \in LogPlaces("OpenProcess") : log[i].n # our_pid
        /\ pc = "dispatch" =>
            /\ LogPlaces("sleep") = {}
            /\ ~win.exists
            /\ AttemptsFrom(1) = SubSeq(found_pids, 1, next_kill - 1)
            /\ ENABLED EnforceLastTerminate \/ ENABLED EnforceLastSleep
        /\ pc # "dispatch" =>
            /\ AttemptsFrom(1) = found_pids
            /\ Cardinality(LogPlaces("sleep")) = 1
            /\ \A s \in LogPlaces("sleep") :
                /\ log[s] = Entry("sleep", << >>, 200)
                /\ \A i \in LogPlaces("OpenProcess") \cup LogPlaces("TerminateProcess") :
                        i < s
                /\ \A c \in LogPlaces("create_window") : s < c
            /\ win.exists => LogPlaces("create_window") # {}
            /\ pc = "cascade" => ENABLED ComputeCascade
            /\ pc = "create" => ENABLED CreateWindow

\* C3 witness: two siblings were attempted, the sleep is over, the window exists
C3_Witness ==
    /\ LastMode
    /\ Len(found_pids) = 2
    /\ win.exists
    /\ Cardinality(LogPlaces("TerminateProcess")) = 2

\* C4: under None policy the process never exits and never asks for the
\* termination of a process, and the cascade offset handed to restore is 32
\* times the number of siblings (same executable name up to case, own pid
\* excluded) in the snapshot it took at startup.
C4_NonePolicy ==
    (NoneMode /\ config.ok) =>
        /\ pc # "exited"
        /\ LogPlaces("exit") = {}
        /\ LogPlaces("OpenProcess") = {}
        /\ LogPlaces("TerminateProcess") = {}
        /\ LogPlaces("activate") = {}
        /\ pc \in {"create", "setup", "restored", "subscribed", "running"} =>
                cascade_offset = 32 * Cardinality(SiblingsIn(snap))
        /\ pc = "restored" /\ ~Stored.some /\ cascade_offset > 0 =>
                calls = << Call("set_position", DefaultBounds.x + cascade_offset,
                                DefaultBounds.y + cascade_offset) >>

\* C4 witness: two siblings were seen, the offset is 64 and restore has used it
C4_Witness ==
    /\ NoneMode
    /\ pc = "restored"
    /\ Cardinality(SiblingsIn(snap)) = 2
    /\ cascade_offset = 64

\* C5: under First policy with no sibling found, enforcement returns: the
\* process does not exit and calls no activate, it goes on to create the
\* window, and the cascade offset is 0.
C5_FirstAlone ==
    (FirstMode /\ config.ok /\ found_pids = << >> /\ pc \notin {"start", "enforce"}) =>
        /\ pc \in {"cascade", "create", "setup", "restored"}
        /\ LogPlaces("exit") = {}
        /\ LogPlaces("activate") = {}
        /\ cascade_offset = 0
        /\ pc = "cascade" => ENABLED ComputeCascade
        /\ pc = "create" => ENABLED CreateWindow
        /\ pc \in {"setup", "restored"} => win.exists

\* C5 witness: another program is running, no sibling was found, and the
\* window has been created
C5_Witness ==
    /\ FirstMode
    /\ found_pids = << >>
    /\ \E p \in PIDs \ {our_pid} : table[p] # NoProc
    /\ pc = "setup"
    /\ win.exists
    /\ cascade_offset = 0

\* the places of calls where op was called
CallPlaces(op) == { i \in DOMAIN calls : calls[i].op = op }

\* C6: restore with a stored record g sets the window size to (g.width,
\* g.height) exactly when both are at least 200 and leaves the size the
\* window was created with otherwise; it always sets the position to
\* (g.x + cascadeOffset, g.y + cascadeOffset); it maximizes exactly when
\* g.maximized, and then as the last call, after size and position.
C6_Restore ==
    (pc = "restored" /\ Stored.some) =>
        LET g == Stored.val
            sized == g.width >= 200 /\ g.height >= 200
        IN  /\ sized <=> CallPlaces("set_size") # {}
            /\ sized => /\ calls[1] = Call("set_size", g.width, g.height)
                        /\ CallPlaces("set_size") = {1}
                        /\ win.width = g.width /\ win.height = g.height
            /\ ~sized => /\ win.width = NewWindow.width
                         /\ win.height = NewWindow.height
            /\ Cardinality(CallPlaces("set_position")) = 1
            /\ \A i \in CallPlaces("set_position") :
                    calls[i] = Call("set_position", g.x + cascade_offset,
                                    g.y + cascade_offset)
            /\ win.x = g.x + cascade_offset /\ win.y = g.y + cascade_offset
            /\ g.maximized <=> CallPlaces("maximize") # {}
            /\ g.maximized <=> win.maximized
            /\ g.maximized =>
                /\ CallPlaces("maximize") = {Len(calls)}
                /\ \A i \in CallPlaces("set_size") \cup CallPlaces("set_position") :
                        i < Len(calls)
            /\ pending = Len(calls)

\* C6 witness: a record with a valid size and maximized = true restored with
\* a cascade offset
C6_Witness ==
    /\ pc = "restored"
    /\ Stored.some
    /\ Stored.val.maximized
    /\ Stored.val.width >= 200 /\ Stored.val.height >= 200
    /\ cascade_offset > 0
    /\ Len(calls) = 3

\* C7: a move/resize event handled while the window reports minimized leaves
\* the file exactly as it was, whatever it held.
C7_MinimizedNoOp ==
    [][(HandleEvent /\ IsMinimized(win)) => file' = file]_vars

\* C7 witness: an event was handled while the window was minimized, with a
\* record in the file
C7_Witness ==
    /\ lastClass = "minimized"
    /\ win.minimized
    /\ Stored.some
    /\ OuterPosition(win).x = -32000

\* C8: a move/resize event handled while the window is maximized and not
\* minimized, with a record in the file, leaves the stored x, y, width and
\* height as they were and sets the stored maximized to true.
C8_MaximizedKeepsRect ==
    [][(HandleEvent /\ ~IsMinimized(win) /\ IsMaximized(win) /\ Stored.some) =>
            /\ WindowStateLoad(file').some
            /\ Rect(WindowStateLoad(file').val) = Rect(Stored.val)
            /\ WindowStateLoad(file').val.maximized = TRUE]_vars

\* C8 witness: the record was stored with maximized = false, the window was
\* maximized and the event handled: the rectangle is not the window's bounds
C8_Witness ==
    /\ lastClass = "maximized_flag"
    /\ IsMaximized(win)
    /\ Stored.some /\ Stored.val.maximized
    /\ Rect(Stored.val) # OuterBounds(win)
    /\ rectSource.kind = "prior"

\* C9: a move/resize event handled while the window is neither minimized
\* nor maximized replaces the file with the window's outer position and
\* size and maximized = false, whatever the file held.
C9_NormalCapture ==
    [][(HandleEvent /\ ~IsMinimized(win) /\ ~IsMaximized(win)) =>
            file' = JsonObject([x |-> OuterPosition(win).x,
                                y |-> OuterPosition(win).y,
                                width |-> OuterSize(win).width,
                                height |-> OuterSize(win).height,
                                maximized |-> FALSE])]_vars

\* C9 witness: a normal window was captured
C9_Witness ==
    /\ lastClass = "normal"
    /\ pending = 0
    /\ ~win.minimized /\ ~win.maximized
    /\ Stored.some /\ ~Stored.val.maximized
    /\ Rect(Stored.val) = Rect(win)
    /\ Rect(win) # Rect(NewWindow)

\* C10: a move/resize event handled while the window is maximized and the
\* file holds no record (missing or unparseable) writes a record with the
\* window's outer bounds and maximized = true.
C10_MaximizedNoRecord ==
    [][(HandleEvent /\ ~IsMinimized(win) /\ IsMaximized(win) /\ ~Stored.some) =>
            file' = JsonObject([x |-> OuterPosition(win).x,
                                y |-> OuterPosition(win).y,
                                width |-> OuterSize(win).width,
                                height |-> OuterSize(win).height,
                                maximized |-> TRUE])]_vars

\* C10 witness: the record was made from the bounds of the maximized window
C10_Witness ==
    /\ lastClass = "maximized_new"
    /\ IsMaximized(win)
    /\ Stored.some /\ Stored.val.maximized
    /\ Rect(Stored.val) = Rect(MaxBounds)

\* C11: under None policy, with instances launched one after another while
\* the earlier ones keep running and every enumeration succeeding, the window
\* of each new instance opens exactly 32 px right of and 32 px below the
\* window of the instance launched before it.
C11_CascadeByOneStep ==
    (Len(openedAt) >= 2 /\ evals = << "ok" >>) =>
        LET prev == openedAt[Len(openedAt) - 1]
            this == openedAt[Len(openedAt)]
        IN  this = [x |-> prev.x + CascadeStep, y |-> prev.y + CascadeStep]

\* C12: for every record g with x, y in i32 and width, height in u32,
\* save(g) followed by load() with no write in between returns a present
\* record equal to g in every field.
C12_RoundTrip ==
    probe.op = "save_load" =>
        /\ probe.result.some
        /\ \A k \in WindowStateFields : probe.result.val[k] = probe.arg.val[k]
        /\ DOMAIN probe.result.val = WindowStateFields

C12_Witness ==
    /\ probe.op = "save_load"
    /\ probe.arg.val.x < 0
    /\ probe.arg.val.width = 2147483647
    /\ probe.arg.val.maximized
    /\ probe.result.some

\* the five members of an object that has them all
FiveFields(o) == [x |-> o.x, y |-> o.y, width |-> o.width, height |-> o.height,
                  maximized |-> o.maximized]

\* C13 as stated: load() returns absent for a file that is missing,
\* unreadable or malformed, for an object with an unknown extra member, and
\* for an object lacking one of the five members.
C13_Original ==
    probe.op = "load" =>
        ((\/ file.kind # "object"
          \/ DOMAIN file.obj # WindowStateFields) => ~probe.result.some)

\* C13: load() returns absent for a file that is missing, unreadable or
\* malformed and for an object lacking one of the five members (whatever
\* else it holds); an object with the five members and an unknown extra
\* member is accepted, the extra member being dropped.
C13_LoadAbsent ==
    probe.op = "load" =>
        /\ file.kind # "object" => ~probe.result.some
        /\ (file.kind = "object" /\ ~(WindowStateFields \subseteq DOMAIN file.obj))
                => ~probe.result.some
        /\ (/\ file.kind = "object"
            /\ WindowStateFields \subseteq DOMAIN file.obj
            /\ file.obj.width >= 0
            /\ file.obj.height >= 0)
                => probe.result = Some(FiveFields(file.obj))

C13_Witness ==
    /\ probe.op = "load"
    /\ file.kind = "object"
    /\ "monitor" \in DOMAIN file.obj
    /\ probe.result.some
    /\ ~("monitor" \in DOMAIN probe.result.val)

\* C14: when the executable name or the process snapshot cannot be had, every
\* policy goes on as if there were no sibling: nothing is activated, opened,
\* terminated or waited for, the process does not exit, the cascade offset
\* is 0, and startup continues step by step to the creation of the window.
C14_SnapshotUnavailable ==
    ("unavailable" \in Range(evals)) =>
        /\ found_pids = << >>
        /\ \A op \in {"activate", "exit", "OpenProcess", "TerminateProcess",
                       "sleep", "ShowWindow_SW_RESTORE", "ShowWindow_SW_SHOW",
                       "SetForegroundWindow"} : LogPlaces(op) = {}
        /\ pc \in {"cascade", "create", "setup", "restored"}
        /\ pc = "cascade" => InstanceMode(config).some /\ ENABLED ComputeCascade
        /\ pc # "cascade" => cascade_offset = 0
        /\ pc = "create" => ENABLED CreateWindow
        /\ pc = "setup" => ENABLED SetupRestore
        /\ win.exists <=> pc \in {"setup", "restored"}

C14_Witness ==
    /\ "unavailable" \in Range(evals)
    /\ SiblingsIn(Snapshot(table)) # {}
    /\ ~InstanceMode(config).some
    /\ pc = "restored"
    /\ win.exists

\* C15: under Last policy, a sibling pid that cannot be opened or terminated
\* is skipped (no TerminateProcess is issued for a pid that could not be
\* opened) and the loop goes on: every enumerated sibling gets its attempt,
\* no error is shown, the process does not exit, and the sleep and the
\* return to startup follow.
C15_LastSkipsFailures ==
    (LastMode /\ LogPlaces("failed") # {}) =>
        /\ \A i \in LogPlaces("failed") :
             /\ i > 1
             /\ log[i - 1].op \in {"OpenProcess", "TerminateProcess"}
             /\ log[i - 1].n = log[i].n
             /\ log[i - 1].op = "OpenProcess" =>
                    \A t \in LogPlaces("TerminateProcess") : log[t].n # log[i].n
        /\ LogPlaces("exit") = {} /\ LogPlaces("show_config_error") = {}
        /\ pc \in {"dispatch", "cascade", "create", "setup", "restored"}
        /\ pc = "dispatch" =>
             /\ AttemptsFrom(1) = SubSeq(found_pids, 1, next_kill - 1)
             /\ LogPlaces("sleep") = {}
             /\ IF next_kill <= Len(found_pids)
                THEN ENABLED EnforceLastTerminate
                ELSE ENABLED EnforceLastSleep
        /\ pc # "dispatch" =>
             /\ AttemptsFrom(1) = found_pids
             /\ Cardinality(LogPlaces("sleep")) = 1
             /\ \A s \in LogPlaces("sleep") :
                    \A i \in LogPlaces("failed") \cup LogPlaces("OpenProcess") : i < s

C15_Witness ==
    /\ LastMode
    /\ Len(log) >= 2
    /\ log[1].op = "OpenProcess"
    /\ log[2].op = "failed"
    /\ \E t \in LogPlaces("TerminateProcess") : t > 2 /\ log[t].n # log[1].n
    /\ Cardinality(LogPlaces("sleep")) = 1
    /\ win.exists

\* the requests made between the activate call and the exit
ActivationRequests ==
    LET a == CHOOSE i \in LogPlaces("activate") : TRUE
        e == CHOOSE i \in LogPlaces("exit") : TRUE
    IN  SubSeq(log, a + 1, e - 1)

\* the windows activate may select: owned by one of pids, with title text
Matches(wins, pids) ==
    { i \in DOMAIN wins : wins[i].owner \in Range(pids) /\ wins[i].titleLen > 0 }

\* C16: activate(pids) selects the first top-level window, in enumeration
\* order, whose owner is in pids and whose title is not empty: every request
\* it issues names that window, windows of pids with empty titles before it
\* are passed over, and when no window matches no request is issued at all.
C16_ActivateSelectsFirst ==
    (FirstMode /\ pc = "exited" /\ LogPlaces("activate") # {}) =>
        LET m == Matches(topWindows, found_pids)
        IN  /\ m = {} => ActivationRequests = << >>
            /\ m # {} =>
                 /\ ActivationRequests # << >>
                 /\ \A i \in DOMAIN ActivationRequests :
                        /\ ActivationRequests[i].n \in m
                        /\ \A j \in m : ActivationRequests[i].n <= j

C16_Witness ==
    /\ FirstMode
    /\ pc = "exited"
    /\ Len(topWindows) = 2
    /\ topWindows[1].owner \in Range(found_pids)
    /\ topWindows[1].titleLen = 0
    /\ topWindows[2].owner \in Range(found_pids)
    /\ topWindows[2].titleLen > 0
    /\ ActivationRequests # << >>
    /\ \A i \in DOMAIN ActivationRequests : ActivationRequests[i].n = 2

\* the number of requests of kind op in a sequence of requests
CountOp(reqs, op) == Cardinality({ i \in DOMAIN reqs : reqs[i].op = op })

\* C17: for the window selected, exactly one restore is requested when it is
\* minimized, otherwise exactly one show when it is not visible, otherwise
\* neither; no other request is made before the foreground request, which
\* is the last one and names the same window.
C17_ActivateRequests ==
    [][(EnforceFirst /\ Matches(topWindows, found_pids) # {}) =>
        LET m == Matches(topWindows, found_pids)
            h == CHOOSE i \in m : \A j \in m : i <= j
            w == topWindows[h]
            reqs == SubSeq(log', Len(log) + 2, Len(log') - 1)
            restores == IF w.minimized THEN 1 ELSE 0
            shows == IF ~w.minimized /\ ~w.visible THEN 1 ELSE 0
        IN  /\ CountOp(reqs, "ShowWindow_SW_RESTORE") = restores
            /\ CountOp(reqs, "ShowWindow_SW_SHOW") = shows
            /\ Len(reqs) = restores + shows + 1
            /\ reqs[Len(reqs)] = Entry("SetForegroundWindow", << >>, h)
            /\ \A i \in DOMAIN reqs : reqs[i].n = h]_vars

C17_Witness ==
    /\ FirstMode
    /\ pc = "exited"
    /\ Len(ActivationRequests) = 2
    /\ ActivationRequests[1].op = "ShowWindow_SW_SHOW"
    /\ ActivationRequests[2].op = "SetForegroundWindow"
    /\ ActivationRequests[2].n = ActivationRequests[1].n

\* C18: when restore finds no stored record, a cascade offset above 0 moves
\* the window to its current position plus the offset on both axes, by one
\* set_position call and nothing else; with an offset of 0 the window and
\* its size and maximized state are left as they are and no call is made;
\* in neither case does restore write the file.
C18_RestoreNoRecord ==
    [][(SetupRestore /\ ~Stored.some) =>
        /\ file' = file
        /\ IF cascade_offset > 0
           THEN /\ OuterPosition(win') =
                        [x |-> OuterPosition(win).x + cascade_offset,
                         y |-> OuterPosition(win).y + cascade_offset]
                /\ OuterSize(win') = OuterSize(win)
                /\ win'.maximized = win.maximized
                /\ win'.minimized = win.minimized
                /\ Len(calls') = 1
                /\ calls'[1].op = "set_position"
           ELSE /\ win' = win
                /\ calls' = << >>]_vars

C18_Witness ==
    /\ pc = "restored"
    /\ file = Malformed
    /\ cascade_offset = 2 * CascadeStep
    /\ OuterPosition(win) = [x |-> DefaultBounds.x + 2 * CascadeStep,
                             y |-> DefaultBounds.y + 2 * CascadeStep]
    /\ OuterSize(win) = [width |-> DefaultBounds.width, height |-> DefaultBounds.height]

\* C20 as stated: every move/resize notification handled ends with a call of
\* state.save(), whichever of the three classifications it falls in.
C20_Original == [][HandleEvent => saves' = 1]_vars

\* C20: every move/resize notification is handled on its own, one per run of
\* the handler, with nothing held back or merged; the handler calls
\* state.save() exactly once when the window is maximized or normal, leaving
\* a record in the file even when nothing changed, and not at all when the
\* window is minimized.
C20_OneSavePerCapture ==
    [][HandleEvent =>
        /\ pending' = pending - 1
        /\ saves' = (IF IsMinimized(win) THEN 0 ELSE 1)
        /\ IsMinimized(win) => lastClass' = "minimized" /\ file' = file
        /\ ~IsMinimized(win) =>
             /\ lastClass' \in {"maximized_flag", "maximized_new", "normal"}
             /\ WindowStateLoad(file').some]_vars

C20_Witness ==
    /\ pc = "running"
    /\ saves = 1
    /\ lastClass = "maximized_flag"
    /\ rectSource.kind = "normal"
    /\ pending = 0

\* the steps of startup after which the policy stage is over
PastPolicy == pc \in {"create", "setup", "restored", "subscribed", "running"}

\* C19: in every run with a loaded configuration the instance policy is
\* evaluated (the siblings enumerated) exactly once, before any window
\* exists; when the process proceeds, restore is called exactly once, after
\* the window is created and before the move/resize handler is subscribed;
\* and the file is written only by the handler, after that subscription.
C19_StartupOrder ==
    /\ [](/\ Len(evals) <= 1
          /\ evals = << >> => ~win.exists /\ LogPlaces("create_window") = {}
          /\ (PastPolicy \/ LogPlaces("exit") # {}) => Len(evals) = 1
          /\ Cardinality(LogPlaces("restore_window_state")) <= 1
          /\ Cardinality(LogPlaces("create_window")) <= 1
          /\ Cardinality(LogPlaces("on_window_event")) <= 1
          /\ pc \in {"restored", "subscribed", "running"} =>
                \E c \in LogPlaces("create_window") :
                    \E r \in LogPlaces("restore_window_state") : c < r
          /\ \A s \in LogPlaces("on_window_event") :
                \E r \in LogPlaces("restore_window_state") : r < s
          /\ subscribed <=> LogPlaces("on_window_event") # {}
          /\ pc \in {"subscribed", "running"} => subscribed
          /\ ~subscribed => lastClass = "none" /\ saves = 0)
    /\ [][file' # file => (subscribed /\ pc = "running" /\ saves' = 1
                            /\ lastClass' # "none")]_vars

C19_Witness ==
    /\ LastMode
    /\ Len(found_pids) = 2
    /\ pc = "running"
    /\ Len(evals) = 1
    /\ lastClass = "normal"
    /\ LogPlaces("on_window_event") # {}
    /\ file # Missing

\* C24: for one instance alone (cascade offset 0) started on a stored record
\* g with width and height of at least 200, no step of restore and of the
\* handling of the notifications restore causes, with no user action,
\* changes the stored record: it stays equal to g in every field.
C24_RestoreCaptureKeepsRecord ==
    [][WindowStateLoad(file') = WindowStateLoad(file)]_vars

\* the copies launched so far, those still inside enforcement (a
\* TerminateProcess call under way counts, whoever made it), and those
\* that passed enforcement and are alive
Launched == { p \in PIDs : procs[p].st # "absent" }
InEnforcement ==
    { p \in PIDs : \/ procs[p].alive /\ procs[p].st \in {"enforce", "dispatch"}
                   \/ procs[p].st = "calling" }
Running == { p \in PIDs : procs[p].alive /\ procs[p].st = "passed" }
\* no copy was closed by its user
NoneClosed == \A p \in PIDs : procs[p].st # "closed"

\* C21: under First policy with every enumeration succeeding, whatever the
\* interleaving of launches, enumerations and exits, there are never two
\* copies that have both passed enforcement and are alive.
C21_FirstMutualExclusion ==
    (FirstMode /\ \A p \in PIDs : procs[p].enum # "unavailable") =>
        Cardinality(Running) <= 1

C21_Witness ==
    /\ FirstMode
    /\ \A p \in PIDs : procs[p].enum # "unavailable"
    /\ Cardinality(Running) = 1
    /\ \E p \in PIDs : procs[p].st = "deferred"
    /\ \E p \in PIDs : procs[p].st = "closed"

\* C22: under First policy, once two or more copies have been launched and
\* all of them are through enforcement, none having been closed by its
\* user, at least one of them has passed enforcement and is running.
C22_FirstSomeoneRuns ==
    (FirstMode /\ Cardinality(Launched) >= 2 /\ InEnforcement = {} /\ NoneClosed) =>
        Running # {}

\* C23: under Last policy with every enumeration and every termination
\* succeeding, once all launched copies are through enforcement, none
\* having been closed by its user, exactly one copy is running.
C23_LastExactlyOne ==
    (/\ LastMode
     /\ Launched # {}
     /\ InEnforcement = {}
     /\ NoneClosed
     /\ \A p \in PIDs : procs[p].enum # "unavailable" /\ ~procs[p].failed) =>
        Cardinality(Running) = 1

====
